---- MODULE Spec2Model ----
(***************************************************************************)
(* Context budgeting and compression engine (ContextManager.buildContext)  *)
(* of the context-aware agent: token estimation, budget allocation,        *)
(* greedy selection of memory and knowledge entries, FIFO pruning and      *)
(* summarization of the conversation history, and the aggressive           *)
(* recompression pass.                                                     *)
(*                                                                         *)
(* Texts are represented by their length in characters, so that the token  *)
(* estimate ceil(length / 4) is computed as the code computes it.          *)
(***************************************************************************)
EXTENDS Integers, Sequences, FiniteSets, TLC

VARIABLES
  cfg,                  \* CONFIG (src/config.ts)
  budget,               \* ContextManager.budget, set by the constructor
  conversationHistory,  \* buildContext argument
  relevantMemories,     \* buildContext argument
  relevantKnowledge,    \* buildContext argument
  pc,                   \* position of the buildContext call
  selectedMemories,     \* local of buildContext
  selectedKnowledge,    \* local of buildContext
  memoryTokens,         \* local of buildContext
  knowledgeTokens,      \* local of buildContext
  currentTokens,        \* local of buildContext
  compressedHistory,    \* local of buildContext
  historyTokens,        \* local of buildContext
  passLog,              \* one record per finished compression pass
  pending,              \* the summarizer call in flight (<<>> when none)
  summarizerCalls,      \* number of summarizeMessages invocations
  window,               \* the returned ContextWindow (<<>> before return)
  knowledgeEntries,     \* RetrievalService.knowledgeEntries
  query,                \* retrieve argument
  topK,                 \* retrieve argument
  results,              \* the sequence retrieve returns
  scoreCalls,           \* number of scoreEntry invocations
  retries,              \* chat loop: local of the turn under way
  waits,                \* chat loop: the waitTime of each retry of the turn
  errors,               \* chat loop: the errors run threw in the turn
  turnOutcome,          \* chat loop: how the last turn ended
  turns,                \* chat loop: number of inputs read so far
  files,                \* memory folder: the .json files found at construction
  serviceMemories,      \* MemoryService.memories
  nextId,               \* MemoryService.nextId
  saves                 \* one record per saveMemory call: its id and outcome

vars == <<cfg, budget, conversationHistory, relevantMemories, relevantKnowledge,
          pc, selectedMemories, selectedKnowledge, memoryTokens,
          knowledgeTokens, currentTokens, compressedHistory, historyTokens,
          passLog, pending, summarizerCalls, window,
          knowledgeEntries, query, topK, results, scoreCalls,
          retries, waits, errors, turnOutcome, turns,
          files, serviceMemories, nextId, saves>>

-----------------------------------------------------------------------------
(* Bounds of the model *)

MaxHist == 5        \* longest conversation history of the generic scenarios
MaxKnow == 2        \* longest relevantKnowledge list
MaxMem == 2         \* longest relevantMemories list
MaxCorpus == 3      \* largest corpus of the retrieval service
MaxTopK == 3         \* largest topK passed to retrieve
MaxTokenLimit == 127 \* largest small MAX_TOKENS of the budget scenarios
MaxTurns == 3        \* inputs read by the chat loop
MaxFiles == 2        \* .json files in the memory folder
MaxSaves == 3        \* saveMemory calls on one MemoryService

-----------------------------------------------------------------------------
(* Program constants *)

CHARS_PER_TOKEN == 4
SystemPromptLength == 455
AggressiveSafetyBuffer == 50
MinConversationBudget == 100
SummarizeMinMessages == 4
SummarizeMinTokens == 100
SummaryPrefixLength == 33
SummaryUnavailableLength == 19
FallbackSummaryFixedLength == 58

Min(a, b) == IF a <= b THEN a ELSE b
Max(a, b) == IF a >= b THEN a ELSE b

-----------------------------------------------------------------------------
(* Token estimator *)

countText(len) == (len + CHARS_PER_TOKEN - 1) \div CHARS_PER_TOKEN

countMessage(message) == countText(message.len)

RECURSIVE countMessages(_)
countMessages(messages) ==
  IF messages = <<>> THEN 0
  ELSE countMessage(Head(messages)) + countMessages(Tail(messages))

countKnowledgeEntry(entry) == countText(entry.titleLen + 1 + entry.contentLen)

RECURSIVE countKnowledgeEntries(_)
countKnowledgeEntries(entries) ==
  IF entries = <<>> THEN 0
  ELSE countKnowledgeEntry(Head(entries)) + countKnowledgeEntries(Tail(entries))

countMemoryEntry(entry) == countText(entry.categoryLen + 1 + entry.contentLen)

RECURSIVE countMemoryEntries(_)
countMemoryEntries(entries) ==
  IF entries = <<>> THEN 0
  ELSE countMemoryEntry(Head(entries)) + countMemoryEntries(Tail(entries))

-----------------------------------------------------------------------------
(* Budget allocation (constructor) *)

\* Mutant: the sub-budgets are rounded to the nearest token.
Constructor_Rounds(c) ==
  [ maxTokens          |-> c.maxTokens,
    safetyMargin       |-> (c.maxTokens * c.safetyPct + 50) \div 100,
    systemPromptBudget |-> (c.maxTokens * c.systemPct + 50) \div 100,
    memoryBudget       |-> (c.maxTokens * c.memoryPct + 50) \div 100,
    knowledgeBudget    |-> (c.maxTokens * c.knowledgePct + 50) \div 100,
    conversationBudget |-> (c.maxTokens * c.conversationPct + 50) \div 100 ]

Constructor(c) ==
  [ maxTokens          |-> c.maxTokens,
    safetyMargin       |-> (c.maxTokens * c.safetyPct) \div 100,
    systemPromptBudget |-> (c.maxTokens * c.systemPct) \div 100,
    memoryBudget       |-> (c.maxTokens * c.memoryPct) \div 100,
    knowledgeBudget    |-> (c.maxTokens * c.knowledgePct) \div 100,
    conversationBudget |-> (c.maxTokens * c.conversationPct) \div 100 ]

SystemTokens == countText(SystemPromptLength)

Available == budget.maxTokens - budget.safetyMargin

-----------------------------------------------------------------------------
(* SELECT: greedy selection of memory and knowledge entries *)

RECURSIVE SelectMemoryLoop(_, _, _, _, _)
SelectMemoryLoop(entries, i, selected, tokens, limit) ==
  IF i > Len(entries) THEN selected
  ELSE LET entryTokens == countMemoryEntry(entries[i])
       IN  IF tokens + entryTokens <= limit
           THEN SelectMemoryLoop(entries, i + 1, Append(selected, entries[i]),
                                 tokens + entryTokens, limit)
           ELSE selected

selectMemoryEntries(entries, limit) ==
  SelectMemoryLoop(entries, 1, <<>>, 0, limit)

\* Mutant: an entry that does not fit is skipped and the scan goes on.
RECURSIVE SelectKnowledgeLoop_Skips(_, _, _, _, _)
SelectKnowledgeLoop_Skips(entries, i, selected, tokens, limit) ==
  IF i > Len(entries) THEN selected
  ELSE LET entryTokens == countKnowledgeEntry(entries[i])
       IN  IF tokens + entryTokens <= limit
           THEN SelectKnowledgeLoop_Skips(entries, i + 1,
                  Append(selected, entries[i]), tokens + entryTokens, limit)
           ELSE SelectKnowledgeLoop_Skips(entries, i + 1, selected, tokens, limit)

RECURSIVE SelectKnowledgeLoop(_, _, _, _, _)
SelectKnowledgeLoop(entries, i, selected, tokens, limit) ==
  IF i > Len(entries) THEN selected
  ELSE LET entryTokens == countKnowledgeEntry(entries[i])
       IN  IF tokens + entryTokens <= limit
           THEN SelectKnowledgeLoop(entries, i + 1, Append(selected, entries[i]),
                                    tokens + entryTokens, limit)
           ELSE selected

\* Mutant: an entry that would overflow is skipped and later entries that
\* fit are still taken.
selectKnowledgeEntries_OverflowSkipped(entries, limit) ==
  SelectKnowledgeLoop_Skips(entries, 1, <<>>, 0, limit)

selectKnowledgeEntries(entries, limit) ==
  SelectKnowledgeLoop(entries, 1, <<>>, 0, limit)

-----------------------------------------------------------------------------
(* COMPRESS, strategy A: FIFO pruning *)

\* Mutant: a message that does not fit is skipped and the walk goes on.
RECURSIVE PruneLoop_Skips(_, _, _, _, _)
PruneLoop_Skips(history, i, pruned, tokens, actualBudget) ==
  IF i < 1 THEN pruned
  ELSE LET message == history[i]
           messageTokens == countMessage(message)
           needsMoreMessages == Len(pruned) < cfg.minRecent
           fitsInBudget == tokens + messageTokens <= actualBudget
       IN  IF fitsInBudget \/ needsMoreMessages
           THEN PruneLoop_Skips(history, i - 1, <<message>> \o pruned,
                                tokens + messageTokens, actualBudget)
           ELSE PruneLoop_Skips(history, i - 1, pruned, tokens, actualBudget)

RECURSIVE PruneLoop(_, _, _, _, _)
PruneLoop(history, i, pruned, tokens, actualBudget) ==
  IF i < 1 THEN pruned
  ELSE LET message == history[i]
           messageTokens == countMessage(message)
           needsMoreMessages == Len(pruned) < cfg.minRecent
           fitsInBudget == tokens + messageTokens <= actualBudget
       IN  IF fitsInBudget \/ needsMoreMessages
           THEN PruneLoop(history, i - 1, <<message>> \o pruned,
                          tokens + messageTokens, actualBudget)
           ELSE pruned

\* Mutant: the budget is not capped by what the other stages left over.
pruneConversationHistory_IgnoresRemaining(history, limit, alreadyUsedTokens) ==
  IF Len(history) = 0 THEN <<>>
  ELSE PruneLoop(history, Len(history), <<>>, 0, limit)

pruneConversationHistory(history, limit, alreadyUsedTokens) ==
  LET remaining == budget.maxTokens - budget.safetyMargin - alreadyUsedTokens
      actualBudget == Min(limit, remaining)
  IN  IF Len(history) = 0 THEN <<>>
      ELSE PruneLoop(history, Len(history), <<>>, 0, actualBudget)

-----------------------------------------------------------------------------
(* COMPRESS, strategy B: summarization *)

\* Mutant: one of the two conditions is enough.
shouldSummarize_Either(messagesToSummarize, tokens) ==
  messagesToSummarize >= SummarizeMinMessages \/ tokens > SummarizeMinTokens

shouldSummarize(messagesToSummarize, tokens) ==
  messagesToSummarize >= SummarizeMinMessages /\ tokens > SummarizeMinTokens

\* Mutant: MIN_RECENT_MESSAGES is ignored.
RECURSIVE RecentLoop_NoMinimum(_, _, _, _, _)
RecentLoop_NoMinimum(history, i, recentMessages, recentTokens, actualBudget) ==
  IF i < 1 THEN [messages |-> recentMessages, tokens |-> recentTokens]
  ELSE LET message == history[i]
           messageTokens == countMessage(message)
           fitsInBudget == recentTokens + messageTokens <= actualBudget
       IN  IF fitsInBudget
           THEN RecentLoop_NoMinimum(history, i - 1,
                  <<message>> \o recentMessages,
                  recentTokens + messageTokens, actualBudget)
           ELSE [messages |-> recentMessages, tokens |-> recentTokens]

RECURSIVE RecentLoop(_, _, _, _, _)
RecentLoop(history, i, recentMessages, recentTokens, actualBudget) ==
  IF i < 1 THEN [messages |-> recentMessages, tokens |-> recentTokens]
  ELSE LET message == history[i]
           messageTokens == countMessage(message)
           needsMoreMessages == Len(recentMessages) < cfg.minRecent
           fitsInBudget == recentTokens + messageTokens <= actualBudget
       IN  IF fitsInBudget \/ needsMoreMessages
           THEN RecentLoop(history, i - 1, <<message>> \o recentMessages,
                           recentTokens + messageTokens, actualBudget)
           ELSE [messages |-> recentMessages, tokens |-> recentTokens]

\* Mutant: the gate decides whatever ALLOW_SUMMARIZATION_FALLBACK is.
summarizeConversationHistory_GateOnly(history, limit, alreadyUsedTokens) ==
  LET remaining == budget.maxTokens - budget.safetyMargin - alreadyUsedTokens
      actualBudget == Min(limit, remaining)
      recent == RecentLoop(history, Len(history), <<>>, 0, actualBudget)
      oldMessages == SubSeq(history, 1, Len(history) - Len(recent.messages))
      oldMessagesTokens == countMessages(oldMessages)
      gate == shouldSummarize(Len(oldMessages), oldMessagesTokens)
      noCall(messages, tokens) ==
        [call |-> FALSE, messages |-> messages, tokens |-> tokens,
         oldMessages |-> <<>>, targetSummaryTokens |-> 0,
         actualBudget |-> actualBudget]
  IN  IF Len(history) = 0 THEN noCall(<<>>, 0)
      ELSE IF Len(recent.messages) = Len(history)
           THEN noCall(recent.messages, recent.tokens)
      ELSE IF ~gate
           THEN noCall(recent.messages, recent.tokens)
      ELSE [call |-> TRUE, messages |-> recent.messages,
            tokens |-> recent.tokens, oldMessages |-> oldMessages,
            targetSummaryTokens |-> (oldMessagesTokens * 3) \div 10,
            actualBudget |-> actualBudget]

\* summarizeConversationHistory up to its await: either the result it returns
\* without summarizing (call = FALSE) or the summarizeMessages call it makes.
summarizeConversationHistory(history, limit, alreadyUsedTokens) ==
  LET remaining == budget.maxTokens - budget.safetyMargin - alreadyUsedTokens
      actualBudget == Min(limit, remaining)
      recent == RecentLoop(history, Len(history), <<>>, 0, actualBudget)
      oldMessages == SubSeq(history, 1, Len(history) - Len(recent.messages))
      oldMessagesTokens == countMessages(oldMessages)
      gate == shouldSummarize(Len(oldMessages), oldMessagesTokens)
      noCall(messages, tokens) ==
        [call |-> FALSE, messages |-> messages, tokens |-> tokens,
         oldMessages |-> <<>>, targetSummaryTokens |-> 0,
         actualBudget |-> actualBudget]
  IN  IF Len(history) = 0 THEN noCall(<<>>, 0)
      ELSE IF Len(recent.messages) = Len(history)
           THEN noCall(recent.messages, recent.tokens)
      ELSE IF cfg.allowFallback /\ ~gate
           THEN noCall(recent.messages, recent.tokens)
      ELSE [call |-> TRUE, messages |-> recent.messages,
            tokens |-> recent.tokens, oldMessages |-> oldMessages,
            targetSummaryTokens |-> (oldMessagesTokens * 3) \div 10,
            actualBudget |-> actualBudget]

RECURSIVE Digits(_)
Digits(n) == IF n < 10 THEN 1 ELSE 1 + Digits(n \div 10)

\* The length of new Date(timestamp).toLocaleTimeString(), "h:mm:ss AM" (the
\* en-US form, process time zone UTC): ten or eleven characters.
toLocaleTimeStringLength(timestamp) ==
  LET hour == (timestamp \div 3600000) % 24
      hour12 == IF hour % 12 = 0 THEN 12 ELSE hour % 12
  IN  Digits(hour12) + 9

\* Mutant: the summary text ends with the time of day it was written at.
SummaryMessage_StampsContent(contentLen, now) ==
  [role |-> "system", timestamp |-> now,
   len |-> SummaryPrefixLength + toLocaleTimeStringLength(now) +
           (IF contentLen = 0 THEN SummaryUnavailableLength ELSE contentLen)]

\* The message summarizeMessages builds from the generated text.
SummaryMessage(contentLen, now) ==
  [role |-> "system", timestamp |-> now,
   len |-> SummaryPrefixLength +
           (IF contentLen = 0 THEN SummaryUnavailableLength ELSE contentLen)]

\* The message summarizeMessages builds when the generation capability fails.
FallbackSummaryMessage(messages, now) ==
  [role |-> "system", timestamp |-> now,
   len |-> FallbackSummaryFixedLength + Digits(Len(messages))
           + toLocaleTimeStringLength(messages[1].timestamp)
           + toLocaleTimeStringLength(messages[Len(messages)].timestamp)]

\* Mutant: a failure of the generation capability is thrown on to the caller.
summarizeMessages_Propagates(messages, response, now) ==
  IF Len(messages) = 0 \/ ~response.ok
  THEN [threw |-> TRUE, message |-> <<>>]
  ELSE [threw |-> FALSE, message |-> <<SummaryMessage(response.len, now)>>]

\* summarizeMessages for a generation capability that answers with a text of
\* response.len characters (response.ok) or fails: the returned message, or
\* the throw for an empty array.
summarizeMessages(messages, response, now) ==
  IF Len(messages) = 0
  THEN [threw |-> TRUE, message |-> <<>>]
  ELSE [threw |-> FALSE,
        message |-> <<IF response.ok
                      THEN SummaryMessage(response.len, now)
                      ELSE FallbackSummaryMessage(messages, now)>>]

\* Mutant: the summary is prepended whether it fits or not.
SummaryFit_AlwaysPrepends(call, summary) ==
  [messages |-> <<summary>> \o call.messages,
   tokens |-> countMessage(summary) + call.tokens]

\* The continuation of summarizeConversationHistory after the await.
SummaryFit(call, summary) ==
  LET summaryTokens == countMessage(summary)
  IN  IF summaryTokens + call.tokens <= call.actualBudget
      THEN [messages |-> <<summary>> \o call.messages,
            tokens |-> summaryTokens + call.tokens]
      ELSE [messages |-> call.messages, tokens |-> call.tokens]

-----------------------------------------------------------------------------
(* Formatting of the final system prompt *)

RECURSIVE MemoryTextLength(_)
MemoryTextLength(memories) ==
  IF memories = <<>> THEN 0
  ELSE LET e == Head(memories)
       IN  (e.categoryLen + e.contentLen + 3)
           + (IF Tail(memories) = <<>> THEN 0 ELSE 1)
           + MemoryTextLength(Tail(memories))

RECURSIVE KnowledgeTextLength(_)
KnowledgeTextLength(knowledge) ==
  IF knowledge = <<>> THEN 0
  ELSE LET e == Head(knowledge)
       IN  (e.titleLen + e.contentLen + 5)
           + (IF Tail(knowledge) = <<>> THEN 0 ELSE 2)
           + KnowledgeTextLength(Tail(knowledge))

MemoryHeaderLength == 39
KnowledgeHeaderLength == 22
NoContextMarkerLength == 29

\* Mutant: the knowledge block is appended before the memory block.
formatSystemPrompt_KnowledgeFirst(basePromptLen, memories, knowledge) ==
  LET withKnowledge ==
        IF Len(knowledge) > 0
        THEN [parts |-> <<"base", "knowledge">>,
              len |-> basePromptLen + KnowledgeHeaderLength
                      + KnowledgeTextLength(knowledge)]
        ELSE [parts |-> <<"base">>, len |-> basePromptLen]
      withMemory ==
        IF Len(memories) > 0
        THEN [parts |-> Append(withKnowledge.parts, "memory"),
              len |-> withKnowledge.len + MemoryHeaderLength
                      + MemoryTextLength(memories)]
        ELSE withKnowledge
  IN  IF Len(memories) = 0 /\ Len(knowledge) = 0
      THEN [parts |-> Append(withMemory.parts, "nocontext"),
            len |-> withMemory.len + NoContextMarkerLength]
      ELSE withMemory

\* The text as the sequence of its parts, with its length in characters.
formatSystemPromptWithMemoryAndKnowledge(basePromptLen, memories, knowledge) ==
  LET withMemory ==
        IF Len(memories) > 0
        THEN [parts |-> <<"base", "memory">>,
              len |-> basePromptLen + MemoryHeaderLength
                      + MemoryTextLength(memories)]
        ELSE [parts |-> <<"base">>, len |-> basePromptLen]
      withKnowledge ==
        IF Len(knowledge) > 0
        THEN [parts |-> Append(withMemory.parts, "knowledge"),
              len |-> withMemory.len + KnowledgeHeaderLength
                      + KnowledgeTextLength(knowledge)]
        ELSE withMemory
  IN  IF Len(memories) = 0 /\ Len(knowledge) = 0
      THEN [parts |-> Append(withKnowledge.parts, "nocontext"),
            len |-> withKnowledge.len + NoContextMarkerLength]
      ELSE withKnowledge

-----------------------------------------------------------------------------
(* Keyword extraction (TextProcessor) and retrieval (RetrievalService).     *)
(* Here texts are strings, processed character by character.                *)

Char(text, i) == SubSeq(text, i, i)

UpperCaseLetters == "ABCDEFGHIJKLMNOPQRSTUVWXYZ"
LowerCaseLetters == "abcdefghijklmnopqrstuvwxyz"
WordCharacters == LowerCaseLetters \o UpperCaseLetters \o "0123456789_"

\* The characters of an alphabet.
Characters(alphabet) == { Char(alphabet, k) : k \in 1..Len(alphabet) }

\* The lower-case letter of each upper-case letter.
LowerCaseOf ==
  [c \in Characters(UpperCaseLetters) |->
     Char(LowerCaseLetters,
          CHOOSE k \in 1..Len(UpperCaseLetters) : Char(UpperCaseLetters, k) = c)]

\* \s of the regular expressions and the characters trim() removes.
WhitespaceCharacters == {" ", "\t", "\n"}

IsWhitespace(c) == c \in WhitespaceCharacters

\* \w of the regular expressions.
WordCharacterSet == Characters(WordCharacters)

IsWordCharacter(c) == c \in WordCharacterSet

RECURSIVE toLowerCase(_)
toLowerCase(text) ==
  IF Len(text) = 0 THEN ""
  ELSE LET c == Head(text)
       IN  (IF c \in DOMAIN LowerCaseOf THEN LowerCaseOf[c] ELSE c)
             \o toLowerCase(Tail(text))

\* text.replace(/[^\w\s]/g, ' ')
RECURSIVE replacePunctuation(_)
replacePunctuation(text) ==
  IF Len(text) = 0 THEN ""
  ELSE LET c == Head(text)
       IN  (IF IsWordCharacter(c) \/ IsWhitespace(c) THEN c ELSE " ")
             \o replacePunctuation(Tail(text))

\* text.split(/\s+/): the pieces between runs of whitespace, the empty pieces
\* before a leading and after a trailing run included.
RECURSIVE SplitLoop(_, _, _, _)
SplitLoop(text, i, piece, pieces) ==
  IF i > Len(text) THEN Append(pieces, piece)
  ELSE IF IsWhitespace(Char(text, i))
       THEN IF i > 1 /\ IsWhitespace(Char(text, i - 1))
            THEN SplitLoop(text, i + 1, piece, pieces)
            ELSE SplitLoop(text, i + 1, "", Append(pieces, piece))
       ELSE SplitLoop(text, i + 1, piece \o Char(text, i), pieces)

split(text) == SplitLoop(text, 1, "", <<>>)

STOP_WORDS ==
  { "a", "an", "and", "are", "as", "at", "be", "by", "for", "from",
    "has", "he", "in", "is", "it", "its", "of", "on", "that", "the",
    "to", "was", "will", "with", "what", "when", "where", "who", "how",
    "about", "all", "any", "but", "can", "did", "do", "if", "no", "not",
    "or", "so", "such", "than", "then", "there", "these", "they", "this",
    "those", "you", "your" }

extractKeywords(text) ==
  SelectSeq(split(replacePunctuation(toLowerCase(text))),
            LAMBDA word : Len(word) > 2 /\ word \notin STOP_WORDS)

\* keywords.includes(keyword)
includes(keywords, keyword) == \E k \in DOMAIN keywords : keywords[k] = keyword

RECURSIVE ScoreLoop(_, _, _, _, _)
ScoreLoop(queryKeywords, i, titleKeywords, contentKeywords, score) ==
  IF i > Len(queryKeywords) THEN score
  ELSE ScoreLoop(queryKeywords, i + 1, titleKeywords, contentKeywords,
                 score
                   + (IF includes(titleKeywords, queryKeywords[i]) THEN 3 ELSE 0)
                   + (IF includes(contentKeywords, queryKeywords[i]) THEN 1 ELSE 0))

scoreEntry(entry, q) ==
  ScoreLoop(extractKeywords(q), 1, extractKeywords(entry.title),
            extractKeywords(entry.content), 0)

RECURSIVE trimStart(_)
trimStart(text) ==
  IF Len(text) > 0 /\ IsWhitespace(Head(text)) THEN trimStart(Tail(text))
  ELSE text

RECURSIVE trimEnd(_)
trimEnd(text) ==
  IF Len(text) > 0 /\ IsWhitespace(Char(text, Len(text)))
  THEN trimEnd(SubSeq(text, 1, Len(text) - 1))
  ELSE text

trim(text) == trimEnd(trimStart(text))

\* Array.prototype.sort with (a, b) => b.score - a.score: descending and
\* stable, so that the first entry with the highest score comes first.
RECURSIVE sortByScore(_)
sortByScore(scored) ==
  IF scored = <<>> THEN <<>>
  ELSE LET best == CHOOSE i \in DOMAIN scored :
                     /\ \A j \in DOMAIN scored : scored[j].score <= scored[i].score
                     /\ \A j \in 1..(i - 1) : scored[j].score < scored[i].score
       IN  <<scored[best]>>
             \o sortByScore(SubSeq(scored, 1, best - 1)
                              \o SubSeq(scored, best + 1, Len(scored)))

\* array.slice(0, end)
slice(array, end) ==
  SubSeq(array, 1, IF end < 0 THEN Max(Len(array) + end, 0)
                   ELSE Min(end, Len(array)))

\* Mutant: entries that score 0 are kept.
positiveScores_KeepsZeroScores(scoredEntries) == scoredEntries

\* scoredEntries.filter(scored => scored.score > 0)
positiveScores(scoredEntries) ==
  SelectSeq(scoredEntries, LAMBDA scored : scored.score > 0)

\* Mutant: a blank query is scored like any other.
retrieve_ScoresBlankQuery(entries, q, k) ==
  LET scoredEntries == [i \in DOMAIN entries |->
                          [entry |-> entries[i],
                           score |-> scoreEntry(entries[i], q)]]
      top == slice(sortByScore(positiveScores(scoredEntries)), k)
  IN  [results |-> [i \in DOMAIN top |-> top[i].entry],
       scoreCalls |-> Len(entries)]

\* retrieve: the sequence it returns and the scoreEntry calls it makes.
retrieve(entries, q, k) ==
  IF trim(q) = ""
  THEN [results |-> <<>>, scoreCalls |-> 0]
  ELSE LET scoredEntries == [i \in DOMAIN entries |->
                               [entry |-> entries[i],
                                score |-> scoreEntry(entries[i], q)]]
           top == slice(sortByScore(positiveScores(scoredEntries)), k)
       IN  [results |-> [i \in DOMAIN top |-> top[i].entry],
            scoreCalls |-> Len(entries)]

-----------------------------------------------------------------------------
(* Inputs of the model *)

\* Lengths in characters of message contents: 20 and 121 tokens.
MessageLengths == {80, 481}

\* Date.now() of the i-th moment of the conversation: three hours apart.
Timestamp(i) == i * 10800000

Message(i, len) ==
  [role |-> IF i % 2 = 1 THEN "user" ELSE "assistant",
   len |-> len, timestamp |-> Timestamp(i)]

Histories(n) ==
  UNION { { [i \in 1..k |-> Message(i, f[i])] : f \in [1..k -> MessageLengths] }
          : k \in 0..n }

\* Ten messages of 50 tokens each.
FifoHistory == [i \in 1..10 |-> Message(i, 200)]

\* Knowledge entries of 40 and 90 tokens.
KnowledgeCorpus ==
  { [id |-> "kb_1", titleLen |-> 20, contentLen |-> 139],
    [id |-> "kb_2", titleLen |-> 30, contentLen |-> 327] }

\* The n most recent memory entries, most recent first, of alternately 30
\* and 15 tokens.
MemoryList(n) ==
  [i \in 1..n |-> [id |-> i, categoryLen |-> 10,
                   contentLen |-> IF i % 2 = 1 THEN 109 ELSE 49]]

ListsOver(S, n) == UNION { [1..k -> S] : k \in 0..n }

\* The retriever's answers, most relevant first: the first n entries of a
\* ranking that puts kb_2 third, or of one that puts it first.
KnowledgeLists(n) ==
  LET kb(id) == CHOOSE e \in KnowledgeCorpus : e.id = id
      rankings == { [i \in 1..n |-> IF i % 3 = 0 THEN kb("kb_2") ELSE kb("kb_1")],
                    [i \in 1..n |-> IF i = 1 THEN kb("kb_2") ELSE kb("kb_1")] }
  IN  { SubSeq(r, 1, k) : r \in rankings, k \in 0..n }

Percentages(safety, system, memory, knowledge, conversation) ==
  [safetyPct |-> safety, systemPct |-> system, memoryPct |-> memory,
   knowledgePct |-> knowledge, conversationPct |-> conversation]

DefaultPercentages == Percentages(7, 10, 10, 40, 43)

\* MAX_TOKENS with the BUDGET_*_PCT settings.
BudgetProfiles ==
  { [maxTokens |-> 1500, pct |-> DefaultPercentages],
    [maxTokens |-> 500, pct |-> DefaultPercentages],
    [maxTokens |-> 200, pct |-> DefaultPercentages],
    [maxTokens |-> 200, pct |-> Percentages(7, 10, 30, 30, 23)] }

FifoProfile == [maxTokens |-> 1000, pct |-> Percentages(7, 10, 10, 40, 22)]

\* COMPRESSION_STRATEGY with ALLOW_SUMMARIZATION_FALLBACK.
Strategies ==
  { [strategy |-> "prune", allowFallback |-> TRUE],
    [strategy |-> "summarize", allowFallback |-> TRUE],
    [strategy |-> "summarize", allowFallback |-> FALSE] }

MinRecentValues == {0, 2}

Config(profile, strat, minRecent) ==
  [maxTokens |-> profile.maxTokens,
   safetyPct |-> profile.pct.safetyPct,
   systemPct |-> profile.pct.systemPct,
   memoryPct |-> profile.pct.memoryPct,
   knowledgePct |-> profile.pct.knowledgePct,
   conversationPct |-> profile.pct.conversationPct,
   strategy |-> strat.strategy,
   allowFallback |-> strat.allowFallback,
   minRecent |-> minRecent]

\* The knowledge base of the retrieval scenarios.
RefundEntry ==
  [id |-> "kb_refund", title |-> "Refund Policy",
   content |-> "Refunds are processed within 5 days"]

ShippingEntry ==
  [id |-> "kb_shipping", title |-> "Shipping Info",
   content |-> "Shipping takes 3 days; refund of shipping costs on request."]

ReturnsEntry ==
  [id |-> "kb_returns", title |-> "Returns",
   content |-> "A refund is issued for returned items."]

KnowledgeBase == {RefundEntry, ShippingEntry, ReturnsEntry}

Queries ==
  { "", " \t ", "refund", "shipping", "Refund policy?", "the",
    "refund refund", "What is the shipping refund?" }

\* Alternative knowledge budgets, around the sums of the entries' tokens.
KnowledgeBudgets == {39, 40, 79, 80, 130, 170}

\* Lengths of the text the generation capability returns (0: no content).
SummaryContentLengths == {0, 200}

\* The locals of the chat loop, which call buildContext and never the reverse.
chatLoop == <<retries, waits, errors, turnOutcome, turns>>

\* No chat loop is running.
NoChatLoop ==
  /\ retries = 0
  /\ waits = <<>>
  /\ errors = <<>>
  /\ turnOutcome = "none"
  /\ turns = 0

\* The fields of a MemoryService and the folder it was constructed on.
memoryService == <<files, serviceMemories, nextId, saves>>

\* No MemoryService has been constructed.
NoMemoryService ==
  /\ files = <<>>
  /\ serviceMemories = <<>>
  /\ nextId = <<>>
  /\ saves = <<>>

-----------------------------------------------------------------------------
(* Initial states: a ContextManager has been constructed and buildContext  *)
(* is about to be called with the given arguments.                         *)

Init ==
  /\ \E strat \in Strategies, minRecent \in MinRecentValues :
       \/ /\ \E profile \in BudgetProfiles :
                cfg = Config(profile, strat, minRecent)
          /\ conversationHistory \in Histories(MaxHist)
          /\ relevantMemories \in { MemoryList(n) : n \in {0, MaxMem} }
          /\ relevantKnowledge \in KnowledgeLists(MaxKnow)
       \/ /\ cfg = Config(FifoProfile, strat, minRecent)
          /\ conversationHistory = FifoHistory
          /\ relevantMemories = <<>>
          /\ relevantKnowledge = <<>>
  /\ budget = Constructor(cfg)
  /\ pc = "start"
  /\ selectedMemories = <<>>
  /\ selectedKnowledge = <<>>
  /\ memoryTokens = 0
  /\ knowledgeTokens = 0
  /\ currentTokens = 0
  /\ compressedHistory = <<>>
  /\ historyTokens = 0
  /\ passLog = <<>>
  /\ pending = <<>>
  /\ summarizerCalls = 0
  /\ window = <<>>
  /\ knowledgeEntries = <<>>
  /\ query = ""
  /\ topK = 0
  /\ results = <<>>
  /\ scoreCalls = 0
  /\ NoChatLoop
  /\ NoMemoryService

\* The retrieval service, which buildContext never touches.
retrieval == <<knowledgeEntries, query, topK, results, scoreCalls>>

inputs == <<cfg, budget, conversationHistory, relevantMemories, relevantKnowledge,
            retrieval, chatLoop, memoryService>>
selection == <<selectedMemories, selectedKnowledge, memoryTokens, knowledgeTokens>>

-----------------------------------------------------------------------------
(* buildContext *)

\* What the generation capability did in a pass: kind "none" when
\* summarizeMessages was not called, otherwise how the call ended ("answer",
\* "error": the capability answered with len characters or failed; "rejected":
\* summarizeMessages itself threw).
Generation(kind, ok, len) == [kind |-> kind, ok |-> ok, len |-> len]

NoGeneration == Generation("none", FALSE, 0)

\* summary: the message summarizeMessages returned.
PassRecord(pass, limit, alreadyUsedTokens, messages, tokens, generation, summary) ==
  [pass |-> pass, limit |-> limit, alreadyUsed |-> alreadyUsedTokens,
   messages |-> messages, tokens |-> tokens,
   summarizerCalled |-> generation.kind # "none",
   generation |-> generation.kind,
   response |-> [ok |-> generation.ok, len |-> generation.len],
   summary |-> summary]

\* Steps 1-3: system prompt, memory selection, knowledge selection.
SelectContext ==
  /\ pc = "start"
  /\ selectedMemories' = selectMemoryEntries(relevantMemories, budget.memoryBudget)
  /\ memoryTokens' = countMemoryEntries(selectedMemories')
  /\ selectedKnowledge' =
       selectKnowledgeEntries(relevantKnowledge, budget.knowledgeBudget)
  /\ knowledgeTokens' = countKnowledgeEntries(selectedKnowledge')
  /\ currentTokens' = SystemTokens + memoryTokens' + knowledgeTokens'
  /\ pc' = "compress"
  /\ UNCHANGED <<inputs, compressedHistory, historyTokens, passLog, pending,
                 summarizerCalls, window>>

\* Mutant: the history is pruned in place (the dropped messages are removed
\* from the caller's array).
FirstPassPrune_InPlace ==
  /\ pc = "compress"
  /\ cfg.strategy # "summarize"
  /\ LET pruned == pruneConversationHistory(conversationHistory,
                      budget.conversationBudget, currentTokens)
         tokens == countMessages(pruned)
     IN  /\ conversationHistory' = pruned
         /\ compressedHistory' = pruned
         /\ historyTokens' = tokens
         /\ currentTokens' = currentTokens + tokens
         /\ passLog' = Append(passLog,
              PassRecord(1, budget.conversationBudget, currentTokens,
                         pruned, tokens, NoGeneration, <<>>))
  /\ pc' = "verify"
  /\ UNCHANGED <<cfg, budget, relevantMemories, relevantKnowledge, retrieval,
                 chatLoop, memoryService,
                 selection, pending, summarizerCalls, window>>

\* Step 4 under the prune strategy.
FirstPassPrune ==
  /\ pc = "compress"
  /\ cfg.strategy # "summarize"
  /\ LET pruned == pruneConversationHistory(conversationHistory,
                      budget.conversationBudget, currentTokens)
         tokens == countMessages(pruned)
     IN  /\ compressedHistory' = pruned
         /\ historyTokens' = tokens
         /\ currentTokens' = currentTokens + tokens
         /\ passLog' = Append(passLog,
              PassRecord(1, budget.conversationBudget, currentTokens,
                         pruned, tokens, NoGeneration, <<>>))
  /\ pc' = "verify"
  /\ UNCHANGED <<inputs, selection, pending, summarizerCalls, window>>

\* Mutant: the first pass works against the nominal conversation budget, as
\* if nothing had been spent on the system prompt, memory and knowledge.
FirstPassSummarize_NominalBudget ==
  /\ pc = "compress"
  /\ cfg.strategy = "summarize"
  /\ LET result == summarizeConversationHistory(conversationHistory,
                     budget.conversationBudget, 0)
     IN  IF result.call
         THEN /\ pending' = <<[pass |-> 1, limit |-> budget.conversationBudget,
                               alreadyUsed |-> 0, call |-> result]>>
              /\ summarizerCalls' = summarizerCalls + 1
              /\ pc' = "awaitSummary"
              /\ UNCHANGED <<compressedHistory, historyTokens, currentTokens,
                             passLog>>
         ELSE /\ compressedHistory' = result.messages
              /\ historyTokens' = result.tokens
              /\ currentTokens' = currentTokens + result.tokens
              /\ passLog' = Append(passLog,
                   PassRecord(1, budget.conversationBudget, 0,
                              result.messages, result.tokens, NoGeneration, <<>>))
              /\ pc' = "verify"
              /\ UNCHANGED <<pending, summarizerCalls>>
  /\ UNCHANGED <<inputs, selection, window>>

\* Step 4 under the summarize strategy, up to the return or the await.
FirstPassSummarize ==
  /\ pc = "compress"
  /\ cfg.strategy = "summarize"
  /\ LET result == summarizeConversationHistory(conversationHistory,
                     budget.conversationBudget, currentTokens)
     IN  IF result.call
         THEN /\ pending' = <<[pass |-> 1, limit |-> budget.conversationBudget,
                               alreadyUsed |-> currentTokens, call |-> result]>>
              /\ summarizerCalls' = summarizerCalls + 1
              /\ pc' = "awaitSummary"
              /\ UNCHANGED <<compressedHistory, historyTokens, currentTokens,
                             passLog>>
         ELSE /\ compressedHistory' = result.messages
              /\ historyTokens' = result.tokens
              /\ currentTokens' = currentTokens + result.tokens
              /\ passLog' = Append(passLog,
                   PassRecord(1, budget.conversationBudget, currentTokens,
                              result.messages, result.tokens, NoGeneration, <<>>))
              /\ pc' = "verify"
              /\ UNCHANGED <<pending, summarizerCalls>>
  /\ UNCHANGED <<inputs, selection, window>>

\* Date.now() when the summary message is built.
Now == Timestamp(Len(conversationHistory) + 1)

\* Mutant: without the catch block a rejected summarizeMessages call makes
\* buildContext throw.
ResumeWithSummary_Rethrows(generation, outcome) ==
  LET p == pending[1]
      result == SummaryFit(p.call, outcome.message[1])
  IN  IF outcome.threw
      THEN /\ pc' = "thrown"
           /\ UNCHANGED <<inputs, selection, currentTokens, compressedHistory,
                          historyTokens, passLog, pending, summarizerCalls,
                          window>>
      ELSE /\ compressedHistory' = result.messages
           /\ historyTokens' = result.tokens
           /\ passLog' = Append(passLog,
                PassRecord(p.pass, p.limit, p.alreadyUsed, result.messages,
                           result.tokens, generation, outcome.message))
           /\ pending' = <<>>
           /\ IF p.pass = 1
              THEN /\ currentTokens' = currentTokens + result.tokens
                   /\ pc' = "verify"
              ELSE /\ currentTokens' = p.alreadyUsed + result.tokens
                   /\ pc' = "report"
           /\ UNCHANGED <<inputs, selection, summarizerCalls, window>>

\* The rest of summarizeConversationHistory and of the pass that called it,
\* once summarizeMessages has settled: the fit check on the message it
\* returned, or the catch block when it threw.
ResumeWithSummary(generation, outcome) ==
  LET p == pending[1]
      result == IF outcome.threw
                THEN [messages |-> p.call.messages, tokens |-> p.call.tokens]
                ELSE SummaryFit(p.call, outcome.message[1])
  IN  /\ compressedHistory' = result.messages
      /\ historyTokens' = result.tokens
      /\ passLog' = Append(passLog,
           PassRecord(p.pass, p.limit, p.alreadyUsed, result.messages,
                      result.tokens, generation, outcome.message))
      /\ pending' = <<>>
      /\ IF p.pass = 1
         THEN /\ currentTokens' = currentTokens + result.tokens
              /\ pc' = "verify"
         ELSE /\ currentTokens' = p.alreadyUsed + result.tokens
              /\ pc' = "report"
      /\ UNCHANGED <<inputs, selection, summarizerCalls, window>>

\* summarizeMessages: the generation capability answers.
SummarizerSucceeds ==
  /\ pc = "awaitSummary"
  /\ \E contentLen \in SummaryContentLengths :
       ResumeWithSummary(Generation("answer", TRUE, contentLen),
         summarizeMessages(pending[1].call.oldMessages,
                           [ok |-> TRUE, len |-> contentLen], Now))

\* summarizeMessages: the generation capability fails; fallback summary.
SummarizerFails ==
  /\ pc = "awaitSummary"
  /\ ResumeWithSummary(Generation("error", FALSE, 0),
       summarizeMessages(pending[1].call.oldMessages,
                         [ok |-> FALSE, len |-> 0], Now))

\* The awaited summarizeMessages call rejects: an error raised by the
\* summarization service outside its own try block reaches the catch block
\* of summarizeConversationHistory.
SummarizerRaises ==
  /\ pc = "awaitSummary"
  /\ ResumeWithSummary(Generation("rejected", FALSE, 0),
                       [threw |-> TRUE, message |-> <<>>])

\* Step 5: the total is within the ceiling.
WithinBudget ==
  /\ pc = "verify"
  /\ ~(currentTokens > Available)
  /\ pc' = "report"
  /\ UNCHANGED <<inputs, selection, currentTokens, compressedHistory,
                 historyTokens, passLog, pending, summarizerCalls, window>>

ReducedConversationBudget ==
  LET excess == currentTokens - Available
  IN  Max(budget.conversationBudget - excess - AggressiveSafetyBuffer,
          MinConversationBudget)

SystemAndKnowledgeTokens == SystemTokens + knowledgeTokens

\* Mutant: recompression is retried while the total is over the ceiling.
AggressivePrune_Retries ==
  /\ pc = "verify"
  /\ currentTokens > Available
  /\ cfg.strategy # "summarize"
  /\ LET pruned == pruneConversationHistory(conversationHistory,
                      ReducedConversationBudget, SystemAndKnowledgeTokens)
         tokens == countMessages(pruned)
     IN  /\ compressedHistory' = pruned
         /\ historyTokens' = tokens
         /\ currentTokens' = SystemAndKnowledgeTokens + tokens
         /\ passLog' = Append(passLog,
              PassRecord(2, ReducedConversationBudget,
                         SystemAndKnowledgeTokens, pruned, tokens, NoGeneration, <<>>))
         /\ pc' = IF SystemAndKnowledgeTokens + tokens > Available
                  THEN "verify" ELSE "report"
  /\ UNCHANGED <<inputs, selection, pending, summarizerCalls, window>>

\* Step 5, aggressive recompression under the prune strategy.
AggressivePrune ==
  /\ pc = "verify"
  /\ currentTokens > Available
  /\ cfg.strategy # "summarize"
  /\ LET pruned == pruneConversationHistory(conversationHistory,
                      ReducedConversationBudget, SystemAndKnowledgeTokens)
         tokens == countMessages(pruned)
     IN  /\ compressedHistory' = pruned
         /\ historyTokens' = tokens
         /\ currentTokens' = SystemAndKnowledgeTokens + tokens
         /\ passLog' = Append(passLog,
              PassRecord(2, ReducedConversationBudget,
                         SystemAndKnowledgeTokens, pruned, tokens, NoGeneration, <<>>))
  /\ pc' = "report"
  /\ UNCHANGED <<inputs, selection, pending, summarizerCalls, window>>

\* Step 5, aggressive recompression under the summarize strategy.
AggressiveSummarize ==
  /\ pc = "verify"
  /\ currentTokens > Available
  /\ cfg.strategy = "summarize"
  /\ LET result == summarizeConversationHistory(conversationHistory,
                     ReducedConversationBudget, SystemAndKnowledgeTokens)
     IN  IF result.call
         THEN /\ pending' = <<[pass |-> 2, limit |-> ReducedConversationBudget,
                               alreadyUsed |-> SystemAndKnowledgeTokens,
                               call |-> result]>>
              /\ summarizerCalls' = summarizerCalls + 1
              /\ pc' = "awaitSummary"
              /\ UNCHANGED <<compressedHistory, historyTokens, currentTokens,
                             passLog>>
         ELSE /\ compressedHistory' = result.messages
              /\ historyTokens' = result.tokens
              /\ currentTokens' = SystemAndKnowledgeTokens + result.tokens
              /\ passLog' = Append(passLog,
                   PassRecord(2, ReducedConversationBudget,
                              SystemAndKnowledgeTokens, result.messages,
                              result.tokens, NoGeneration, <<>>))
              /\ pc' = "report"
              /\ UNCHANGED <<pending, summarizerCalls>>
  /\ UNCHANGED <<inputs, selection, window>>

\* The diagnostics of debug mode (undefined, modelled as <<>>, otherwise).
DebugInfo(debug) ==
  IF debug
  THEN <<[systemTokens |-> SystemTokens, memoryTokens |-> memoryTokens,
          knowledgeTokens |-> knowledgeTokens, historyTokens |-> historyTokens,
          total |-> currentTokens,
          exceedsWarning |-> currentTokens > Available]>>
  ELSE <<>>

\* Steps 6-7: debug info, final system prompt, the returned ContextWindow.
\* process.env.DEBUG is an input of the call that decides nothing but the
\* presence of debugInfo.
Return ==
  /\ pc = "report"
  /\ \E debug \in BOOLEAN :
     window' = <<[systemPrompt |->
                    formatSystemPromptWithMemoryAndKnowledge(
                      SystemPromptLength, selectedMemories, selectedKnowledge),
                  memoryEntries |-> selectedMemories,
                  knowledgeEntries |-> selectedKnowledge,
                  conversationHistory |-> compressedHistory,
                  totalTokens |-> currentTokens,
                  debugInfo |-> DebugInfo(debug)]>>
  /\ pc' = "done"
  /\ UNCHANGED <<inputs, selection, currentTokens, compressedHistory,
                 historyTokens, passLog, pending, summarizerCalls>>

Next ==
  \/ SelectContext
  \/ FirstPassPrune
  \/ FirstPassSummarize
  \/ SummarizerSucceeds
  \/ SummarizerFails
  \/ SummarizerRaises
  \/ WithinBudget
  \/ AggressivePrune
  \/ AggressiveSummarize
  \/ Return

Spec == Init /\ [][Next]_vars

-----------------------------------------------------------------------------
(* Retrieval: a RetrievalService has been constructed over a corpus and      *)
(* retrieve is about to be called; no buildContext call is under way.        *)

RetrievalInit ==
  /\ knowledgeEntries \in ListsOver(KnowledgeBase, MaxCorpus)
  /\ query \in Queries
  /\ topK \in 0..MaxTopK
  /\ results = <<>>
  /\ scoreCalls = 0
  /\ NoChatLoop
  /\ NoMemoryService
  /\ pc = "retrieve"
  /\ cfg = Config([maxTokens |-> 1500, pct |-> DefaultPercentages],
                  [strategy |-> "prune", allowFallback |-> TRUE], 0)
  /\ budget = Constructor(cfg)
  /\ conversationHistory = <<>>
  /\ relevantMemories = <<>>
  /\ relevantKnowledge = <<>>
  /\ selectedMemories = <<>>
  /\ selectedKnowledge = <<>>
  /\ memoryTokens = 0
  /\ knowledgeTokens = 0
  /\ currentTokens = 0
  /\ compressedHistory = <<>>
  /\ historyTokens = 0
  /\ passLog = <<>>
  /\ pending = <<>>
  /\ summarizerCalls = 0
  /\ window = <<>>

\* retrieve(query, topK)
Retrieve ==
  /\ pc = "retrieve"
  /\ LET returned == retrieve(knowledgeEntries, query, topK)
     IN  /\ results' = returned.results
         /\ scoreCalls' = scoreCalls + returned.scoreCalls
  /\ pc' = "retrieved"
  /\ UNCHANGED <<cfg, budget, conversationHistory, relevantMemories,
                 relevantKnowledge, selection, currentTokens, compressedHistory,
                 historyTokens, passLog, pending, summarizerCalls, window,
                 knowledgeEntries, query, topK, chatLoop,
                 memoryService>>

RetrievalNext == Retrieve

RetrievalSpec == RetrievalInit /\ [][RetrievalNext]_vars

-----------------------------------------------------------------------------
(* Budget allocation: the configuration has been loaded and a               *)
(* ContextManager is about to be constructed, then used.                    *)

\* MAX_TOKENS settings: every small limit, and the default with its
\* predecessor.
TokenLimits == 0..MaxTokenLimit \cup {1499, 1500}

\* BUDGET_*_PCT settings: the documented four categories (no memory share),
\* other settings that sum to 100, and settings that do not.
BudgetPercentages ==
  { Percentages(7, 10, 0, 40, 43),
    Percentages(7, 10, 30, 30, 23),
    Percentages(20, 20, 20, 20, 20),
    Percentages(33, 33, 0, 33, 1),
    DefaultPercentages,
    FifoProfile.pct }

\* The budget field before the constructor has assigned it.
Unconstructed ==
  [maxTokens |-> 0, safetyMargin |-> 0, systemPromptBudget |-> 0,
   memoryBudget |-> 0, knowledgeBudget |-> 0, conversationBudget |-> 0]

BudgetInit ==
  /\ \E maxTokens \in TokenLimits, pct \in BudgetPercentages :
       cfg = Config([maxTokens |-> maxTokens, pct |-> pct],
                    [strategy |-> "prune", allowFallback |-> TRUE], 0)
  /\ budget = Unconstructed
  /\ pc = "construct"
  /\ conversationHistory = <<>>
  /\ relevantMemories \in { MemoryList(n) : n \in {0, MaxMem} }
  /\ relevantKnowledge \in KnowledgeLists(MaxKnow)
  /\ selectedMemories = <<>>
  /\ selectedKnowledge = <<>>
  /\ memoryTokens = 0
  /\ knowledgeTokens = 0
  /\ currentTokens = 0
  /\ compressedHistory = <<>>
  /\ historyTokens = 0
  /\ passLog = <<>>
  /\ pending = <<>>
  /\ summarizerCalls = 0
  /\ window = <<>>
  /\ knowledgeEntries = <<>>
  /\ query = ""
  /\ topK = 0
  /\ results = <<>>
  /\ scoreCalls = 0
  /\ NoChatLoop
  /\ NoMemoryService

\* new ContextManager()
Construct ==
  /\ pc = "construct"
  /\ budget' = Constructor(cfg)
  /\ pc' = "start"
  /\ UNCHANGED <<cfg, conversationHistory, relevantMemories, relevantKnowledge,
                 retrieval, chatLoop, memoryService, selection, currentTokens,
                 compressedHistory,
                 historyTokens, passLog, pending, summarizerCalls, window>>

\* The constructor, then the first steps of a buildContext call, which read
\* the budget.
BudgetNext ==
  \/ Construct
  \/ SelectContext

BudgetSpec == BudgetInit /\ [][BudgetNext]_vars

-----------------------------------------------------------------------------
(* The chat loop of main: services are initialized, the conversation       *)
(* history is empty and the loop is about to read its first input.          *)

\* String.prototype.includes
stringIncludes(text, pattern) ==
  \E i \in 1..(Len(text) - Len(pattern) + 1) :
    SubSeq(text, i, i + Len(pattern) - 1) = pattern

\* What run(contextualAgent, userInput) may throw: status 0 and code "" stand
\* for an absent property (the last value has none of the three).
ApiErrors ==
  { [status |-> 503, code |-> "", message |-> "Service Unavailable"],
    [status |-> 429, code |-> "", message |-> "Rate limit reached"],
    [status |-> 0, code |-> "ECONNRESET", message |-> "socket hang up"],
    [status |-> 0, code |-> "", message |-> "Request failed with status code 503"],
    [status |-> 0, code |-> "", message |-> "Connection timeout"],
    [status |-> 401, code |-> "", message |-> "Incorrect API key provided"],
    [status |-> 500, code |-> "", message |-> "Request Timeout"],
    [status |-> 0, code |-> "ENOTFOUND", message |-> "getaddrinfo ENOTFOUND"],
    [status |-> 0, code |-> "", message |-> ""] }

\* Mutant: every error is retried.
isRetryable_Always(apiError) == TRUE

isRetryable(apiError) ==
  \/ apiError.status = 503
  \/ apiError.status = 429
  \/ apiError.code = "ECONNRESET"
  \/ stringIncludes(apiError.message, "503")
  \/ stringIncludes(apiError.message, "timeout")

maxRetries == 3

RECURSIVE pow(_, _)
pow(base, exponent) ==
  IF exponent = 0 THEN 1 ELSE base * pow(base, exponent - 1)

\* Exponential backoff, max 10 s, before retry number r.
waitTime(r) == Min(1000 * pow(2, r - 1), 10000)

\* Lines typed by the user.
UserInputs == {"exit", "Exit", "/save", "/SAVE", "", " \t", "refund?"}

\* Lengths of result.finalOutput (0: none, replaced by 'No response
\* generated').
FinalOutputLengths == {0, 40}
NoResponseLength == 21

\* Everything but the conversation history, the position of the loop and its
\* locals.
outsideChatLoop ==
  <<cfg, budget, relevantMemories, relevantKnowledge, retrieval, selection,
    currentTokens, compressedHistory, historyTokens, passLog, pending,
    summarizerCalls, window, memoryService>>

ChatInit ==
  /\ conversationHistory = <<>>
  /\ pc = "ask"
  /\ NoChatLoop
  /\ NoMemoryService
  /\ cfg = Config([maxTokens |-> 1500, pct |-> DefaultPercentages],
                  [strategy |-> "prune", allowFallback |-> TRUE], 0)
  /\ budget = Constructor(cfg)
  /\ relevantMemories = <<>>
  /\ relevantKnowledge = <<>>
  /\ selectedMemories = <<>>
  /\ selectedKnowledge = <<>>
  /\ memoryTokens = 0
  /\ knowledgeTokens = 0
  /\ currentTokens = 0
  /\ compressedHistory = <<>>
  /\ historyTokens = 0
  /\ passLog = <<>>
  /\ pending = <<>>
  /\ summarizerCalls = 0
  /\ window = <<>>
  /\ knowledgeEntries = <<>>
  /\ query = ""
  /\ topK = 0
  /\ results = <<>>
  /\ scoreCalls = 0

\* Mutant: the answer takes the place of the message it answers.
PushAssistantMessage_ReplacesLast(history, len) ==
  [history EXCEPT ![Len(history)] =
     [role |-> "assistant", len |-> len,
      timestamp |-> Timestamp(Len(history) + 1)]]

\* conversationHistory.push({role: 'assistant', ...})
PushAssistantMessage(history, len) ==
  Append(history, [role |-> "assistant", len |-> len,
                   timestamp |-> Timestamp(Len(history) + 1)])

\* One input is read: exit, /save, an empty line, or a user message that is
\* pushed to the history before retrieval and buildContext are called.
AskQuestion ==
  /\ pc = "ask"
  /\ turns < MaxTurns
  /\ turns' = turns + 1
  /\ \E userInput \in UserInputs :
       IF toLowerCase(userInput) = "exit"
       THEN /\ pc' = "exited"
            /\ turnOutcome' = "exit"
            /\ UNCHANGED conversationHistory
       ELSE IF toLowerCase(userInput) = "/save"
       THEN /\ pc' = "ask"
            /\ \E written \in BOOLEAN :
                 turnOutcome' = IF written THEN "saved" ELSE "saveFailed"
            /\ UNCHANGED conversationHistory
       ELSE IF trim(userInput) = ""
       THEN /\ pc' = "ask"
            /\ turnOutcome' = "skipped"
            /\ UNCHANGED conversationHistory
       ELSE /\ conversationHistory' =
                 Append(conversationHistory,
                        [role |-> "user", len |-> Len(userInput),
                         timestamp |-> Timestamp(Len(conversationHistory) + 1)])
            /\ pc' = "context"
            /\ turnOutcome' = "pending"
  /\ UNCHANGED <<outsideChatLoop, retries, waits, errors>>

\* buildContext has returned: the agent is created and the retry loop is
\* entered with its first call of run.
ContextBuilt ==
  /\ pc = "context"
  /\ retries' = 0
  /\ waits' = <<>>
  /\ errors' = <<>>
  /\ pc' = "run"
  /\ UNCHANGED <<outsideChatLoop, conversationHistory, turnOutcome, turns>>

\* run resolves: the assistant message is pushed.
RunSucceeds ==
  /\ pc = "run"
  /\ \E finalOutput \in FinalOutputLengths :
       conversationHistory' =
         PushAssistantMessage(conversationHistory,
           IF finalOutput = 0 THEN NoResponseLength ELSE finalOutput)
  /\ turnOutcome' = "answered"
  /\ pc' = "ask"
  /\ UNCHANGED <<outsideChatLoop, retries, waits, errors, turns>>

\* run rejects: a retry after the backoff, or the error is thrown on to the
\* catch block of the turn.
RunFails ==
  /\ pc = "run"
  /\ \E apiError \in ApiErrors :
       /\ errors' = Append(errors, apiError)
       /\ IF isRetryable(apiError) /\ retries < maxRetries
          THEN /\ retries' = retries + 1
               /\ waits' = Append(waits, waitTime(retries'))
               /\ pc' = "wait"
               /\ UNCHANGED turnOutcome
          ELSE /\ turnOutcome' = "error"
               /\ pc' = "ask"
               /\ UNCHANGED <<retries, waits>>
  /\ UNCHANGED <<outsideChatLoop, conversationHistory, turns>>

\* The backoff timer fires and the retry loop continues.
RetryAfterWait ==
  /\ pc = "wait"
  /\ pc' = "run"
  /\ UNCHANGED <<outsideChatLoop, conversationHistory, chatLoop>>

ChatNext ==
  \/ AskQuestion
  \/ ContextBuilt
  \/ RunSucceeds
  \/ RunFails
  \/ RetryAfterWait

ChatSpec == ChatInit /\ [][ChatNext]_vars

-----------------------------------------------------------------------------
(* MemoryService: the constructor has loaded the memory folder and          *)
(* saveMemory is called some number of times, its file write succeeding or  *)
(* failing.                                                                 *)

\* A JavaScript number that holds a non-negative integer is written as the
\* sequence of its decimal digits, most significant first and without a
\* leading zero; NaN is the empty sequence.
NaN == <<>>

DecimalDigits == "0123456789"

isDigit(ch) == \E d \in 1..10 : SubSeq(DecimalDigits, d, d) = ch

digitValue(ch) == (CHOOSE d \in 1..10 : SubSeq(DecimalDigits, d, d) = ch) - 1

\* 2^53 = 9007199254740992: up to here every integer is a number, and the
\* integer after it is not.
TwoTo53 == <<9, 0, 0, 7, 1, 9, 9, 2, 5, 4, 7, 4, 0, 9, 9, 2>>

RECURSIVE successor(_)
successor(digits) ==
  IF digits = <<>> THEN <<1>>
  ELSE IF digits[Len(digits)] < 9
  THEN [digits EXCEPT ![Len(digits)] = @ + 1]
  ELSE Append(successor(SubSeq(digits, 1, Len(digits) - 1)), 0)

\* The number nearest to an integer, ties to the even significand: exact up
\* to 2^53, and 2^53 + 1 is 2^53 (the numbers of the model stay below).
toNumber(digits) ==
  IF digits = successor(TwoTo53) THEN TwoTo53 ELSE digits

\* x + 1 and x++ on numbers
plusOne(x) == toNumber(successor(x))

\* x >= y on numbers other than NaN
greaterOrEqual(x, y) ==
  \/ Len(x) > Len(y)
  \/ /\ Len(x) = Len(y)
     /\ \/ x = y
        \/ \E i \in 1..Len(x) :
             /\ x[i] > y[i]
             /\ \A j \in 1..(i - 1) : x[j] = y[j]

RECURSIVE stripLeadingZeros(_)
stripLeadingZeros(digits) ==
  IF Len(digits) > 1 /\ Head(digits) = 0
  THEN stripLeadingZeros(Tail(digits))
  ELSE digits

RECURSIVE leadingDigits(_)
leadingDigits(text) ==
  IF text = "" \/ ~isDigit(SubSeq(text, 1, 1)) THEN <<>>
  ELSE <<digitValue(SubSeq(text, 1, 1))>>
         \o leadingDigits(SubSeq(text, 2, Len(text)))

\* parseInt(text) for a text without leading white space, sign or 0x: the
\* value of its leading run of decimal digits, NaN when it has none.
parseInt(text) ==
  IF leadingDigits(text) = <<>> THEN NaN
  ELSE toNumber(stripLeadingZeros(leadingDigits(text)))

\* Number.prototype.toString of an integer below 10^21
RECURSIVE numberToString(_)
numberToString(x) ==
  IF x = <<>> THEN ""
  ELSE SubSeq(DecimalDigits, Head(x) + 1, Head(x) + 1)
         \o numberToString(Tail(x))

\* String.prototype.padStart with a one-character filler
RECURSIVE padStart(_, _, _)
padStart(text, targetLength, filler) ==
  IF Len(text) >= targetLength THEN text
  ELSE padStart(filler \o text, targetLength, filler)

\* String.prototype.replace(pattern, '') with a string pattern: its first
\* occurrence is removed.
removeFirst(text, pattern) ==
  IF stringIncludes(text, pattern)
  THEN LET i == CHOOSE k \in 1..Len(text) :
                  /\ SubSeq(text, k, k + Len(pattern) - 1) = pattern
                  /\ \A j \in 1..(k - 1) :
                       SubSeq(text, j, j + Len(pattern) - 1) # pattern
       IN SubSeq(text, 1, i - 1)
            \o SubSeq(text, i + Len(pattern), Len(text))
  ELSE text

\* The id fields found in the files of the memory folder.
FileIds ==
  {"mem_001", "mem_002", "mem_2", "mem_010", "note", "xmem_001",
   "mem_9007199254740991", "mem_9007199254740992"}

\* A .json file of the memory folder: a memory entry with all required
\* fields, or one that fails to parse or lacks a required field.
MemoryFiles ==
  { [valid |-> TRUE, id |-> id] : id \in FileIds }
    \cup { [valid |-> FALSE, id |-> ""] }

\* The state of the service while loadMemories walks the folder.
RECURSIVE loadMemories(_, _)
loadMemories(service, remaining) ==
  IF remaining = <<>> THEN service
  ELSE
    LET file == Head(remaining)
        idNum == parseInt(removeFirst(file.id, "mem_"))
    IN IF ~file.valid
       THEN loadMemories(service, Tail(remaining))
       ELSE loadMemories(
              [memories |-> Append(service.memories, [id |-> file.id]),
               nextId |-> IF idNum # NaN /\ greaterOrEqual(idNum, service.nextId)
                          THEN plusOne(idNum)
                          ELSE service.nextId],
              Tail(remaining))

\* new MemoryService(memoryPath) on a folder with the given files
MemoryServiceConstructor(folder) ==
  loadMemories([memories |-> <<>>, nextId |-> <<1>>], folder)

\* Everything but the MemoryService.
outsideMemoryService ==
  <<cfg, budget, conversationHistory, relevantMemories, relevantKnowledge,
    retrieval, selection, currentTokens, compressedHistory, historyTokens,
    passLog, pending, summarizerCalls, window, pc, chatLoop>>

RECURSIVE SeqsUpTo(_, _)
SeqsUpTo(S, n) ==
  IF n = 0 THEN {<<>>}
  ELSE SeqsUpTo(S, n - 1)
         \cup { Append(q, x) : q \in SeqsUpTo(S, n - 1), x \in S }

MemoryInit ==
  /\ files \in SeqsUpTo(MemoryFiles, MaxFiles)
  /\ serviceMemories = MemoryServiceConstructor(files).memories
  /\ nextId = MemoryServiceConstructor(files).nextId
  /\ saves = <<>>
  /\ pc = "memory"
  /\ conversationHistory = <<>>
  /\ NoChatLoop
  /\ cfg = Config([maxTokens |-> 1500, pct |-> DefaultPercentages],
                  [strategy |-> "prune", allowFallback |-> TRUE], 0)
  /\ budget = Constructor(cfg)
  /\ relevantMemories = <<>>
  /\ relevantKnowledge = <<>>
  /\ selectedMemories = <<>>
  /\ selectedKnowledge = <<>>
  /\ memoryTokens = 0
  /\ knowledgeTokens = 0
  /\ currentTokens = 0
  /\ compressedHistory = <<>>
  /\ historyTokens = 0
  /\ passLog = <<>>
  /\ pending = <<>>
  /\ summarizerCalls = 0
  /\ window = <<>>
  /\ knowledgeEntries = <<>>
  /\ query = ""
  /\ topK = 0
  /\ results = <<>>
  /\ scoreCalls = 0

\* saveMemory(category, content): the id is taken and nextId advanced before
\* the file is written; the entry is pushed only when the write succeeded,
\* otherwise the error is thrown on.
saveMemory ==
  /\ pc = "memory"
  /\ Len(saves) < MaxSaves
  /\ LET memory == [id |-> "mem_" \o padStart(numberToString(nextId), 3, "0")]
     IN /\ nextId' = plusOne(nextId)
        /\ \E written \in BOOLEAN :
             /\ serviceMemories' = IF written
                                   THEN Append(serviceMemories, memory)
                                   ELSE serviceMemories
             /\ saves' = Append(saves, [id |-> memory.id, threw |-> ~written])
  /\ UNCHANGED <<outsideMemoryService, files>>

MemoryNext == saveMemory

MemorySpec == MemoryInit /\ [][MemoryNext]_vars

-----------------------------------------------------------------------------
(* Vocabulary of the properties *)

Suffix(seq, n) == SubSeq(seq, Len(seq) - n + 1, Len(seq))

Prefix(seq, n) == SubSeq(seq, 1, n)

\* The longest suffix of history whose messages cost at most limit tokens
\* (the empty one when not even the newest message fits).
LongestSuffixWithin(history, limit) ==
  LET fitting == {n \in 1..Len(history) :
                    countMessages(Suffix(history, n)) <= limit}
  IN  Suffix(history, Cardinality(fitting))

\* The budget a compression pass effectively works against.
PassBudget(p) == Min(p.limit, Available - p.alreadyUsed)

\* The messages of a pass result that come from the history (the result
\* without the summary message the summarize strategy may put in front).
KeptTail(p) ==
  IF p.messages # <<>> /\ Head(p.messages).role = "system"
  THEN Tail(p.messages)
  ELSE p.messages

\* The recent tail the summarize strategy keeps intact in a pass.
RecentTail(p) ==
  RecentLoop(conversationHistory, Len(conversationHistory), <<>>, 0,
             PassBudget(p))

\* The old segment a pass of the summarize strategy hands to the summarizer.
OldMessages(p) ==
  Prefix(conversationHistory,
         Len(conversationHistory) - Len(RecentTail(p).messages))

\* Lists of as many messages as old, with the first and last timestamp of
\* old but other roles, contents and timestamps in between.
SameCountAndSpan(old) ==
  { [i \in DOMAIN old |->
       [role |-> "user", len |-> len,
        timestamp |-> IF i \in {1, Len(old)} THEN old[i].timestamp ELSE 0]]
    : len \in MessageLengths }

FirstPassDone == Len(passLog) >= 1

EffectiveBudget ==
  Min(budget.conversationBudget,
      budget.maxTokens - budget.safetyMargin
        - (SystemTokens + memoryTokens + knowledgeTokens))

Returned == pc = "done"

-----------------------------------------------------------------------------
(* Properties *)

\* C1: the returned window either has totalTokens <= maxTokens - safetyMargin
\* or carries the exceeds-limit warning in its debugInfo.
C1_OverflowDetectable ==
  Returned =>
    \/ window[1].totalTokens <= budget.maxTokens - budget.safetyMargin
    \/ /\ window[1].debugInfo # <<>>
       /\ window[1].debugInfo[1].exceedsWarning

\* C2: the returned totalTokens is the sum of the stage totals of the returned
\* window: system prompt + selected memory + selected knowledge + history.
C2_TotalIsSumOfStages ==
  Returned =>
    window[1].totalTokens =
      SystemTokens + countMemoryEntries(window[1].memoryEntries)
        + countKnowledgeEntries(window[1].knowledgeEntries)
        + countMessages(window[1].conversationHistory)

\* C3 (as stated): with MIN_RECENT_MESSAGES = 0 the tokens of the history the
\* first pass returns never exceed effectiveBudget.
C3_FirstPassWithinEffectiveBudget ==
  (FirstPassDone /\ cfg.minRecent = 0) =>
    countMessages(passLog[1].messages) <= EffectiveBudget

\* C3 (amended): with MIN_RECENT_MESSAGES = 0 the tokens of the history the
\* first pass returns never exceed effectiveBudget when effectiveBudget >= 0,
\* and the history is empty when effectiveBudget is negative; either way the
\* conversation stage claims no token already spent on the other stages.
C3_FirstPassWithinEffectiveBudgetOrEmpty ==
  (FirstPassDone /\ cfg.minRecent = 0) =>
    /\ passLog[1].tokens = countMessages(passLog[1].messages)
    /\ IF EffectiveBudget >= 0
       THEN /\ passLog[1].tokens <= EffectiveBudget
            /\ SystemTokens + memoryTokens + knowledgeTokens
                 + passLog[1].tokens <= budget.maxTokens - budget.safetyMargin
       ELSE passLog[1].messages = <<>>

C3_Witness ==
  /\ FirstPassDone
  /\ cfg.minRecent = 0
  /\ EffectiveBudget >= 0
  /\ EffectiveBudget < budget.conversationBudget
  /\ passLog[1].tokens > 0
  /\ Len(passLog[1].messages) < Len(conversationHistory)

\* C4: buildContext always returns after at most one aggressive pass: there
\* are never more than two compression passes (the second one being the single
\* aggressive one), the budget is verified only once, right after the first
\* pass, a summarizer call in flight can always resume and a finished call can
\* always return, and the window it returns holds the result of the last pass
\* even when that still overflows.
C4_AtMostOneAggressivePass ==
  /\ Len(passLog) <= 2
  /\ \A i \in DOMAIN passLog : passLog[i].pass = i
  /\ (pc = "verify" => Len(passLog) = 1)
  /\ (pc = "awaitSummary" => ENABLED (SummarizerSucceeds \/ SummarizerFails))
  /\ (pc = "report" => ENABLED Return)
  /\ Returned =>
       /\ window # <<>>
       /\ passLog # <<>>
       /\ window[1].conversationHistory = passLog[Len(passLog)].messages

C4_Witness ==
  /\ Returned
  /\ Len(passLog) = 2
  /\ window[1].totalTokens > budget.maxTokens - budget.safetyMargin

\* C5: when system prompt + selected knowledge alone exceed
\* maxTokens - safetyMargin and the history is non-empty, the returned history
\* retains the newest messages that fit within the 100-token floor.
C5_FloorKeepsNewestMessages ==
  (Returned /\ conversationHistory # <<>>
     /\ SystemTokens + knowledgeTokens > budget.maxTokens - budget.safetyMargin) =>
    LET floorTail == LongestSuffixWithin(conversationHistory,
                                         MinConversationBudget)
        returned == window[1].conversationHistory
    IN  /\ Len(returned) >= Len(floorTail)
        /\ Suffix(returned, Len(floorTail)) = floorTail

\* C6: memory selection and knowledge selection each return the longest prefix
\* of the supplied list whose cumulative tokens stay within the category
\* budget: a prefix in the given order, within budget, that stops only at the
\* end of the list or at the first entry that would overflow.
C6_SelectionIsLongestPrefix ==
  pc # "start" =>
    /\ Len(selectedKnowledge) <= Len(relevantKnowledge)
    /\ selectedKnowledge = Prefix(relevantKnowledge, Len(selectedKnowledge))
    /\ countKnowledgeEntries(selectedKnowledge) <= budget.knowledgeBudget
    /\ Len(selectedKnowledge) < Len(relevantKnowledge) =>
         countKnowledgeEntries(selectedKnowledge)
           + countKnowledgeEntry(relevantKnowledge[Len(selectedKnowledge) + 1])
           > budget.knowledgeBudget
    /\ Len(selectedMemories) <= Len(relevantMemories)
    /\ selectedMemories = Prefix(relevantMemories, Len(selectedMemories))
    /\ countMemoryEntries(selectedMemories) <= budget.memoryBudget
    /\ Len(selectedMemories) < Len(relevantMemories) =>
         countMemoryEntries(selectedMemories)
           + countMemoryEntry(relevantMemories[Len(selectedMemories) + 1])
           > budget.memoryBudget

\* Selection stopped although a later entry would still have fitted.
C6_Witness ==
  /\ pc # "start"
  /\ \E j \in DOMAIN relevantKnowledge :
       /\ j > Len(selectedKnowledge) + 1
       /\ countKnowledgeEntries(selectedKnowledge)
            + countKnowledgeEntry(relevantKnowledge[j]) <= budget.knowledgeBudget
  /\ \E j \in DOMAIN relevantMemories :
       /\ j > Len(selectedMemories) + 1
       /\ countMemoryEntries(selectedMemories)
            + countMemoryEntry(relevantMemories[j]) <= budget.memoryBudget

\* C7: with MIN_RECENT_MESSAGES = 0 every pruning pass returns exactly the
\* longest suffix of the history whose tokens fit the effective budget of the
\* pass (the empty history when nothing fits), in the original order; ten
\* messages of 50 tokens with a conversation budget of 220 give [m7..m10].
C7_PruneIsLongestSuffix ==
  (cfg.strategy = "prune" /\ cfg.minRecent = 0) =>
    /\ \A i \in DOMAIN passLog :
         passLog[i].messages =
           LongestSuffixWithin(conversationHistory, PassBudget(passLog[i]))
    /\ (FirstPassDone /\ conversationHistory = FifoHistory
          /\ PassBudget(passLog[1]) = 220) =>
         passLog[1].messages = SubSeq(FifoHistory, 7, 10)

C7_Witness ==
  /\ Returned
  /\ cfg.strategy = "prune"
  /\ cfg.minRecent = 0
  /\ conversationHistory = FifoHistory
  /\ budget.conversationBudget = 220
  /\ Len(passLog) = 1
  /\ window[1].conversationHistory = SubSeq(FifoHistory, 7, 10)

\* C8: with k = MIN_RECENT_MESSAGES every compression pass of either strategy
\* keeps the newest min(k, length of history) messages intact, whatever the
\* budget, and keeps a message older than the k-th newest only if the kept
\* messages up to it still fit the effective budget of the pass.
C8_MinRecentKept ==
  \A i \in DOMAIN passLog :
    LET p == passLog[i]
        kept == KeptTail(p)
    IN  /\ Len(kept) <= Len(conversationHistory)
        /\ kept = Suffix(conversationHistory, Len(kept))
        /\ Len(kept) >= Min(cfg.minRecent, Len(conversationHistory))
        /\ \A n \in (cfg.minRecent + 1)..Len(kept) :
             countMessages(Suffix(conversationHistory, n)) <= PassBudget(p)

\* The minimum forced messages in that overflow the budget of the pass.
C8_Witness ==
  \E i \in DOMAIN passLog :
    /\ cfg.minRecent = 2
    /\ Len(conversationHistory) > 2
    /\ Len(KeptTail(passLog[i])) = 2
    /\ countMessages(Suffix(conversationHistory, 1)) > PassBudget(passLog[i])

\* C9: for every non-empty history the history returned by buildContext
\* contains at least the newest message.
C9_NewestMessagePreserved ==
  (Returned /\ conversationHistory # <<>>) =>
    /\ window[1].conversationHistory # <<>>
    /\ window[1].conversationHistory[Len(window[1].conversationHistory)]
         = conversationHistory[Len(conversationHistory)]

\* C10: under the summarize strategy with fallback allowed, a pass in which the
\* whole history fits the effective budget, or in which the old segment has
\* fewer than 4 messages or at most 100 tokens, never invokes the summarizer
\* and returns the history and token count the pruning strategy returns.
C10_SummarizeFallsBackToPruning ==
  (cfg.strategy = "summarize" /\ cfg.allowFallback) =>
    \A i \in DOMAIN passLog :
      LET p == passLog[i]
          pruned == pruneConversationHistory(conversationHistory, p.limit,
                                             p.alreadyUsed)
          old == Prefix(conversationHistory,
                        Len(conversationHistory) - Len(pruned))
      IN  ( \/ countMessages(conversationHistory) <= PassBudget(p)
            \/ Len(old) < 4
            \/ countMessages(old) <= 100 ) =>
            /\ ~p.summarizerCalled
            /\ p.messages = pruned
            /\ p.tokens = countMessages(pruned)

\* An old segment of 3 messages totalling 60 tokens is dropped without a summary.
C10_Witness ==
  /\ cfg.strategy = "summarize"
  /\ cfg.allowFallback
  /\ \E i \in DOMAIN passLog :
       LET p == passLog[i]
           old == Prefix(conversationHistory,
                         Len(conversationHistory) - Len(p.messages))
       IN  /\ p.messages # <<>>
           /\ Len(old) = 3
           /\ countMessages(old) = 60
           /\ ~p.summarizerCalled

\* C11: under the summarize strategy the history a pass returns is either
\* exactly the recent tail, or the summary message (role system) followed by
\* the intact tail; the summary is prepended if and only if one was produced
\* and summaryTokens + tailTokens <= the effective budget of the pass.
C11_SummaryPrependedIffFits ==
  cfg.strategy = "summarize" =>
    \A i \in DOMAIN passLog :
      LET p == passLog[i]
          tail == RecentTail(p)
          fits == /\ p.summary # <<>>
                  /\ countMessage(p.summary[1]) + tail.tokens <= PassBudget(p)
      IN  IF fits
          THEN /\ p.messages = p.summary \o tail.messages
               /\ Head(p.messages).role = "system"
               /\ p.tokens = countMessage(p.summary[1]) + tail.tokens
          ELSE /\ p.messages = tail.messages
               /\ p.tokens = tail.tokens

\* A first pass whose summary was discarded, then an aggressive pass whose
\* summary was put in front of a non-empty tail.
C11_Witness ==
  /\ Returned
  /\ cfg.strategy = "summarize"
  /\ Len(passLog) = 2
  /\ passLog[1].summary # <<>>
  /\ passLog[1].messages = RecentTail(passLog[1]).messages
  /\ passLog[2].summary # <<>>
  /\ RecentTail(passLog[2]).messages # <<>>
  /\ window[1].conversationHistory
       = passLog[2].summary \o RecentTail(passLog[2]).messages

\* C12: summarizeMessages is only given non-empty lists, and for them it
\* returns exactly one message with role system whether the generation
\* capability answers or fails (the failure is not thrown on); the fallback
\* message is the same for every list with the same number of messages and the
\* same first and last timestamp.
C12_SummarizerAlwaysReturnsOneSystemMessage ==
  /\ pending # <<>> => pending[1].call.oldMessages # <<>>
  /\ \A i \in DOMAIN passLog :
       LET p == passLog[i]
       IN  p.generation \in {"answer", "error"} =>
             /\ OldMessages(p) # <<>>
             /\ Len(p.summary) = 1
             /\ p.summary[1].role = "system"
             /\ p.generation = "error" =>
                  \A other \in SameCountAndSpan(OldMessages(p)) :
                    FallbackSummaryMessage(other, p.summary[1].timestamp)
                      = p.summary[1]

\* The generation capability failed and the fallback message for five old
\* messages is returned in front of the history.
C12_Witness ==
  /\ Returned
  /\ Len(passLog) = 1
  /\ passLog[1].generation = "error"
  /\ Len(OldMessages(passLog[1])) = 5
  /\ window[1].conversationHistory # <<>>
  /\ Head(window[1].conversationHistory) = passLog[1].summary[1]
  /\ Head(window[1].conversationHistory).role = "system"

\* C13: buildContext never throws: the call is always at one of its regular
\* positions, every finished pass (empty history and negative effective budget
\* included) has a well-formed result whose token count is that of its
\* messages, a rejected summarizeMessages call leaves the recent tail alone,
\* and the call that has returned has returned a window.
C13_NeverThrows ==
  /\ pc \in {"start", "compress", "awaitSummary", "verify", "report", "done"}
  /\ \A i \in DOMAIN passLog :
       LET p == passLog[i]
       IN  /\ p.tokens = countMessages(p.messages)
           /\ p.tokens >= 0
           /\ KeptTail(p) = Suffix(conversationHistory, Len(KeptTail(p)))
           /\ p.generation = "rejected" =>
                /\ p.messages = RecentTail(p).messages
                /\ p.tokens = RecentTail(p).tokens
  /\ Returned =>
       /\ Len(window) = 1
       /\ window[1].conversationHistory = compressedHistory

\* Both passes ran against a negative effective budget, the summarizer call of
\* each was rejected, and the call returned the empty recent tail.
C13_Witness ==
  /\ Returned
  /\ Len(passLog) = 2
  /\ conversationHistory # <<>>
  /\ \A i \in 1..2 : /\ passLog[i].generation = "rejected"
                      /\ PassBudget(passLog[i]) < 0
  /\ window[1].conversationHistory = <<>>

\* C14: one buildContext call has a single suspension point: summarizeMessages
\* is invoked at most once per call, and never under the prune strategy.
C14_SingleSuspensionPoint ==
  /\ summarizerCalls <= 1
  /\ cfg.strategy = "prune" => summarizerCalls = 0

\* A second buildContext call on the same arguments and configuration, made
\* at wall-clock time now, for which summarizeMessages settles in each pass
\* as it did in the call under way (outcomes: one record per pass).
Recompress(limit, alreadyUsedTokens, outcome, now) ==
  IF cfg.strategy # "summarize"
  THEN LET pruned == pruneConversationHistory(conversationHistory, limit,
                                              alreadyUsedTokens)
       IN  [messages |-> pruned, tokens |-> countMessages(pruned)]
  ELSE LET result == summarizeConversationHistory(conversationHistory, limit,
                                                  alreadyUsedTokens)
           tail == [messages |-> result.messages, tokens |-> result.tokens]
       IN  IF ~result.call \/ outcome.generation = "rejected"
           THEN tail
           ELSE SummaryFit(result,
                  summarizeMessages(result.oldMessages, outcome.response,
                                    now).message[1])

\* The wall-clock time of the second call: before every message of the
\* history, so never the time Now of the call under way.
AnotherTime == Timestamp(0)

\* What summarizeMessages was answered in each finished pass.
Outcomes ==
  [i \in DOMAIN passLog |-> [generation |-> passLog[i].generation,
                             response |-> passLog[i].response]]

SecondCall(outcomes, now) ==
  LET memories == selectMemoryEntries(relevantMemories, budget.memoryBudget)
      knowledge == selectKnowledgeEntries(relevantKnowledge,
                                          budget.knowledgeBudget)
      fixedTokens == SystemTokens + countMemoryEntries(memories)
                       + countKnowledgeEntries(knowledge)
      first == Recompress(budget.conversationBudget, fixedTokens,
                          outcomes[1], now)
      firstTotal == fixedTokens + first.tokens
      reduced == Max(budget.conversationBudget - (firstTotal - Available)
                       - AggressiveSafetyBuffer, MinConversationBudget)
      restart == SystemTokens + countKnowledgeEntries(knowledge)
      second == Recompress(reduced, restart, outcomes[Len(outcomes)], now)
      aggressive == firstTotal > Available
  IN  [systemPrompt |-> formatSystemPromptWithMemoryAndKnowledge(
                          SystemPromptLength, memories, knowledge),
       memoryEntries |-> memories,
       knowledgeEntries |-> knowledge,
       conversationHistory |->
         IF aggressive THEN second.messages ELSE first.messages,
       totalTokens |->
         IF aggressive THEN restart + second.tokens ELSE firstTotal]

\* A message list without its wall-clock-derived fields (the timestamp of a
\* summary message).
WithoutWallClock(messages) ==
  [i \in DOMAIN messages |->
     IF messages[i].role = "system"
     THEN [role |-> "system", len |-> messages[i].len]
     ELSE messages[i]]

\* C19: the window a call returns is the one a second call on the same
\* history, memory, knowledge and configuration returns at another
\* wall-clock time, given that the generation capability behaves the same:
\* same system prompt, same selected entries, same totalTokens and same
\* conversation history apart from the timestamp of a summary message,
\* whatever DEBUG was.
C19_Deterministic ==
  Returned =>
    [SecondCall(Outcomes, AnotherTime) EXCEPT
       !.conversationHistory = WithoutWallClock(@)]
      = [systemPrompt |-> window[1].systemPrompt,
         memoryEntries |-> window[1].memoryEntries,
         knowledgeEntries |-> window[1].knowledgeEntries,
         conversationHistory |->
           WithoutWallClock(window[1].conversationHistory),
         totalTokens |-> window[1].totalTokens]

\* Both passes summarized, the generation capability answered in both, and
\* the returned history opens with a summary whose timestamp is not the one
\* the second call gives it.
C19_Witness ==
  /\ Returned
  /\ Len(passLog) = 2
  /\ \A i \in 1..2 : passLog[i].generation = "answer"
  /\ window[1].conversationHistory # <<>>
  /\ Head(window[1].conversationHistory).role = "system"
  /\ Head(window[1].conversationHistory).timestamp # AnotherTime
  /\ SecondCall(Outcomes, AnotherTime).conversationHistory
       # window[1].conversationHistory
  /\ Len(window[1].memoryEntries) > 0
  /\ Len(window[1].knowledgeEntries) > 0

\* C18: for a fixed ordered knowledge list, a larger knowledge budget never
\* selects fewer entries, and the selection for the smaller budget is a prefix
\* of the selection for the larger one (the budget of the call and the
\* alternative budgets, pairwise).
C18_SelectionMonotone ==
  pc = "compress" =>
    /\ selectedKnowledge
         = selectKnowledgeEntries(relevantKnowledge, budget.knowledgeBudget)
    /\ \A b1 \in KnowledgeBudgets \cup {budget.knowledgeBudget} :
         \A b2 \in { b \in KnowledgeBudgets \cup {budget.knowledgeBudget} :
                        b1 < b } :
           LET smaller == selectKnowledgeEntries(relevantKnowledge, b1)
               larger == selectKnowledgeEntries(relevantKnowledge, b2)
           IN  /\ Len(smaller) <= Len(larger)
               /\ smaller = Prefix(larger, Len(smaller))

\* The call selected two entries where smaller budgets select one and none.
C18_Witness ==
  /\ pc = "compress"
  /\ Len(selectedKnowledge) = 2
  /\ Len(selectKnowledgeEntries(relevantKnowledge, 79)) = 1
  /\ Len(selectKnowledgeEntries(relevantKnowledge, 39)) = 0

\* C20: no step of buildContext changes the caller's history, memory list
\* or knowledge list (they hold the same elements in the same order after the
\* call as before it, under either strategy, with or without aggressive
\* recompression), and the history of the returned window is derived from the
\* caller's: messages of the caller's history in their order, behind at most
\* one summary message.
C20_InputsNotMutated ==
  /\ [][UNCHANGED <<conversationHistory, relevantMemories,
                    relevantKnowledge>>]_vars
  /\ [](Returned =>
         LET returned == window[1].conversationHistory
             kept == IF returned # <<>> /\ Head(returned).role = "system"
                     THEN Tail(returned) ELSE returned
         IN  /\ kept = Suffix(conversationHistory, Len(kept))
             /\ window[1].memoryEntries
                  = Prefix(relevantMemories, Len(window[1].memoryEntries))
             /\ window[1].knowledgeEntries
                  = Prefix(relevantKnowledge, Len(window[1].knowledgeEntries)))

\* A call that recompressed aggressively has returned a history, a memory
\* selection and a knowledge selection shorter than the caller's lists, which
\* still hold five messages and two entries each.
C20_Witness ==
  /\ Returned
  /\ Len(passLog) = 2
  /\ Len(conversationHistory) = 5
  /\ Len(relevantMemories) = 2
  /\ Len(relevantKnowledge) = 2
  /\ window[1].conversationHistory # <<>>
  /\ Len(window[1].conversationHistory) < Len(conversationHistory)
  /\ Len(window[1].memoryEntries) < Len(relevantMemories)
  /\ Len(window[1].knowledgeEntries) < Len(relevantKnowledge)

\* C27: the reported totalTokens is at least the token estimate of the text
\* the window carries: the returned system prompt (base template with the
\* formatted blocks or the marker) plus the contents of the returned history.
C27_TotalCoversEmittedText ==
  Returned =>
    countText(window[1].systemPrompt.len)
      + countMessages(window[1].conversationHistory)
      <= window[1].totalTokens

C25_RecompressionOnlyShrinks ==
  Len(passLog) = 2 =>
    /\ passLog[2].tokens <= passLog[1].tokens
    /\ Len(passLog[2].messages) <= Len(passLog[1].messages)

\* C24: under the summarize strategy a pass calls the summarizer, with
\* ALLOW_SUMMARIZATION_FALLBACK disabled, exactly when it leaves a non-empty
\* old segment (whatever the gate says), and with the fallback enabled, exactly
\* when the old segment passes the gate (at least 4 messages and more than
\* 100 tokens); the target of the call is floor(0.3 * oldTokens).
C24_FallbackToggle ==
  cfg.strategy = "summarize" =>
    LET gate(old) == Len(old) >= 4 /\ countMessages(old) > 100
        due(old) == IF cfg.allowFallback THEN gate(old) ELSE old # <<>>
    IN  /\ \A i \in DOMAIN passLog :
             passLog[i].summarizerCalled <=> due(OldMessages(passLog[i]))
        /\ pending # <<>> =>
             LET p == pending[1]
                 old == OldMessages(p)
             IN  /\ due(old)
                 /\ p.call.oldMessages = old
                 /\ p.call.targetSummaryTokens * 10 <= 3 * countMessages(old)
                 /\ 3 * countMessages(old)
                      < (p.call.targetSummaryTokens + 1) * 10

\* With the fallback disabled both passes call the summarizer for an old
\* segment of one 20-token message; the target of the second call is 6.
C24_Witness ==
  /\ cfg.strategy = "summarize"
  /\ ~cfg.allowFallback
  /\ Len(passLog) = 1
  /\ passLog[1].summarizerCalled
  /\ pending # <<>>
  /\ pending[1].pass = 2
  /\ Len(pending[1].call.oldMessages) = 1
  /\ countMessages(pending[1].call.oldMessages) = 20
  /\ pending[1].call.targetSummaryTokens = 6

\* C23: the returned system prompt is the base template, then the memory
\* block exactly when a memory entry was selected, then the knowledge block
\* exactly when a knowledge entry was selected, then the no-context marker
\* exactly when both selections are empty.
C23_PromptBlocksInOrder ==
  Returned =>
    LET block(name, present) == IF present THEN <<name>> ELSE <<>>
        memory == window[1].memoryEntries # <<>>
        knowledge == window[1].knowledgeEntries # <<>>
    IN  window[1].systemPrompt.parts
          = <<"base">> \o block("memory", memory)
              \o block("knowledge", knowledge)
              \o block("nocontext", ~memory /\ ~knowledge)

\* A window with both blocks: memory before knowledge and no marker.
C23_Witness ==
  /\ Returned
  /\ window[1].memoryEntries # <<>>
  /\ window[1].knowledgeEntries # <<>>
  /\ window[1].systemPrompt.parts = <<"base", "memory", "knowledge">>

\* C22: the history budget recomputed for aggressive recompression is never
\* greater than conversationBudget, the budget of the first pass.
C22_ReducedBudgetIsTighter ==
  /\ (pc = "verify" /\ currentTokens > Available) =>
       ReducedConversationBudget <= budget.conversationBudget
  /\ \A i \in DOMAIN passLog :
       passLog[i].pass = 2 => passLog[i].limit <= budget.conversationBudget

-----------------------------------------------------------------------------
(* Properties of budget allocation *)

\* b is floor(maxTokens * pct / 100).
IsFloorOfShare(b, pct) ==
  /\ b * 100 <= cfg.maxTokens * pct
  /\ cfg.maxTokens * pct < (b + 1) * 100

PercentageSum ==
  cfg.safetyPct + cfg.systemPct + cfg.memoryPct + cfg.knowledgePct
    + cfg.conversationPct

BudgetSum ==
  budget.safetyMargin + budget.systemPromptBudget + budget.memoryBudget
    + budget.knowledgeBudget + budget.conversationBudget

-----------------------------------------------------------------------------
(* Properties of the memory service *)

\* The entries the constructor loaded: one per valid file, in folder order.
LoadedIds == [i \in 1..Len(SelectSeq(files, LAMBDA f : f.valid)) |->
                SelectSeq(files, LAMBDA f : f.valid)[i].id]

PairwiseDistinct(seq) ==
  \A i, j \in DOMAIN seq : i # j => seq[i] # seq[j]

StoreIds == [i \in DOMAIN serviceMemories |-> serviceMemories[i].id]

\* C30: when the loaded entries have pairwise distinct ids, then after any
\* sequence of successful and failed saveMemory calls no two entries of the
\* store share an id; a save whose write failed added no entry (the store
\* holds the loaded entries and one entry per successful save), its id is
\* not in the store and no later save was given the same id.
C30_StoreIdsDistinct ==
  PairwiseDistinct(LoadedIds) =>
    /\ PairwiseDistinct(StoreIds)
    /\ StoreIds = LoadedIds
                    \o [i \in 1..Len(SelectSeq(saves, LAMBDA v : ~v.threw)) |->
                          SelectSeq(saves, LAMBDA v : ~v.threw)[i].id]
    /\ \A k \in DOMAIN saves :
         saves[k].threw =>
           /\ \A i \in DOMAIN StoreIds : StoreIds[i] # saves[k].id
           /\ \A l \in DOMAIN saves : l > k => saves[l].id # saves[k].id

-----------------------------------------------------------------------------
(* Properties of the chat loop *)

\* An error the loop may retry after: status 503 or 429, code ECONNRESET, or
\* a message that contains 503 or timeout.
RetryableError(e) ==
  \/ e.status \in {503, 429}
  \/ e.code = "ECONNRESET"
  \/ \E i \in 1..(Len(e.message) - 2) : SubSeq(e.message, i, i + 2) = "503"
  \/ \E i \in 1..(Len(e.message) - 6) :
       SubSeq(e.message, i, i + 6) = "timeout"

\* The backoff before the first, second and third retry, in milliseconds.
Backoff == <<1000, 2000, 4000>>

\* C28: the agent call of a turn is attempted at most 4 times; each retry
\* follows a retryable error and waits 1000, 2000, 4000 ms
\* (min(1000 * 2^(r-1), 10000) before retry r); a turn ends with an error, and
\* without a further attempt, exactly on a non-retryable error or a retryable
\* error of the 4th attempt; an answered turn made at most 4 attempts.
C28_AtMostFourAttempts ==
  /\ retries <= 3
  /\ Len(errors) <= 4
  /\ Len(waits) = retries
  /\ waits = Prefix(Backoff, retries)
  /\ \A r \in 1..retries : RetryableError(errors[r])
  /\ pc \in {"run", "wait"} => Len(errors) = retries
  /\ turnOutcome = "answered" => Len(errors) = retries
  /\ turnOutcome = "error" =>
       /\ pc = "ask"
       /\ Len(errors) = retries + 1
       /\ \/ ~RetryableError(errors[Len(errors)])
          \/ Len(errors) = 4

\* Four attempts failed with retryable errors: three retries were made, after
\* 1, 2 and 4 seconds, and the turn ended with an error.
C28_Witness ==
  /\ turnOutcome = "error"
  /\ pc = "ask"
  /\ Len(errors) = 4
  /\ RetryableError(errors[4])
  /\ waits = <<1000, 2000, 4000>>

\* C29: the conversation history only grows by appending; an assistant
\* message is appended only by the step in which the agent call of the turn
\* succeeds, so every assistant message directly follows a user message; a
\* failed turn leaves its user message last in the history, unanswered.
C29_HistoryAppendOnly ==
  /\ [][/\ Len(conversationHistory') >= Len(conversationHistory)
        /\ Prefix(conversationHistory', Len(conversationHistory))
             = conversationHistory]_vars
  /\ [][(/\ conversationHistory' # conversationHistory
         /\ conversationHistory'[Len(conversationHistory')].role
              = "assistant")
        => /\ pc = "run"
           /\ turnOutcome' = "answered"
           /\ Len(conversationHistory') = Len(conversationHistory) + 1]_vars
  /\ [](\A i \in DOMAIN conversationHistory :
          conversationHistory[i].role = "assistant" =>
            /\ i > 1
            /\ conversationHistory[i - 1].role = "user")
  /\ [](turnOutcome = "error" =>
          /\ conversationHistory # <<>>
          /\ conversationHistory[Len(conversationHistory)].role = "user")

\* After a failed turn and a turn without a message (empty line or /save),
\* the third input was answered: user, user, assistant.
C29_Witness ==
  /\ turns = 3
  /\ turnOutcome = "answered"
  /\ Len(conversationHistory) = 3
  /\ conversationHistory[1].role = "user"
  /\ conversationHistory[2].role = "user"
  /\ conversationHistory[3].role = "assistant"

-----------------------------------------------------------------------------
(* Properties of retrieval *)

Retrieved == pc = "retrieved"

\* The score of each entry of the corpus for the query.
Scores == [i \in DOMAIN knowledgeEntries |-> scoreEntry(knowledgeEntries[i], query)]

\* The positions whose entry scores more than 0.
Matching(scores) == { i \in DOMAIN scores : scores[i] > 0 }

\* Position i comes before position j in the ranking: higher score first,
\* corpus order among equal scores.
RanksBefore(scores, i, j) ==
  scores[i] > scores[j] \/ (scores[i] = scores[j] /\ i < j)

\* The position of the corpus that holds rank k among the matching ones.
Ranked(scores, k) ==
  CHOOSE i \in Matching(scores) :
    Cardinality({ j \in Matching(scores) : RanksBefore(scores, j, i) }) = k - 1

\* C15: retrieve(query, topK) with topK >= 0 returns at most topK entries, all
\* scoring more than 0, ordered by score descending with equal scores in
\* corpus order: exactly the first topK entries of that ranking (none when
\* nothing matches).
C15_RetrieveReturnsTopRanked ==
  (Retrieved /\ topK >= 0) =>
    LET scores == Scores
    IN  /\ Len(results) = Min(topK, Cardinality(Matching(scores)))
        /\ \A k \in DOMAIN results :
             /\ results[k] = knowledgeEntries[Ranked(scores, k)]
             /\ scores[Ranked(scores, k)] > 0
        /\ \A k \in 1..(Len(results) - 1) :
             scores[Ranked(scores, k)] >= scores[Ranked(scores, k + 1)]

\* The first of two entries that both score 1 is returned behind the entry
\* that scores 3, the second is cut off by topK, and a fourth scores 0.
C15_Witness ==
  /\ Retrieved
  /\ query = "refund"
  /\ topK = 2
  /\ knowledgeEntries = <<ReturnsEntry, ShippingEntry, RefundEntry>>
  /\ results = <<RefundEntry, ReturnsEntry>>

\* C16: a query keyword adds 3 when it is among the title keywords and 1 when
\* it is among the content keywords; for the corpus of the single entry
\* "Refund Policy" / "Refunds are processed within 5 days" the query "refund"
\* scores 3 + 1 = 4 and the entry is returned, and the query "shipping" scores
\* 0 and nothing is returned.
C16_RefundScoresFour ==
  (Retrieved /\ knowledgeEntries = <<RefundEntry>> /\ topK >= 1) =>
    /\ query = "refund" =>
         /\ scoreEntry(RefundEntry, query) = 3 + 1
         /\ results = <<RefundEntry>>
    /\ query = "shipping" =>
         /\ scoreEntry(RefundEntry, query) = 0
         /\ results = <<>>

\* C17: for any corpus, retrieve with an empty or whitespace-only query
\* returns the empty sequence without scoring any entry.
C17_BlankQueryReturnsNothing ==
  (Retrieved /\ \A i \in 1..Len(query) : IsWhitespace(Char(query, i))) =>
    /\ results = <<>>
    /\ scoreCalls = 0

\* A whitespace-only query against a corpus of three entries.
C17_Witness ==
  /\ Retrieved
  /\ query = " \t "
  /\ Len(knowledgeEntries) = 3
  /\ topK = 3
  /\ results = <<>>
  /\ scoreCalls = 0

====
